---- MODULE Spec2Model ----
(***************************************************************************)
(* Model of crates/sol-macro/src/expand/event.rs: the expansion of a       *)
(* Solidity event declaration into a Rust struct and its SolEvent impl,    *)
(* and the meaning of the generated methods (new, topics,                  *)
(* encode_topics_raw, From<&Event> for LogData).                           *)
(*                                                                         *)
(* Rust tuples and slices are 0-based; they are modelled as TLA+ sequences *)
(* whose element i+1 is the Rust element i.  Every index stored in the     *)
(* generated code (new_impl, encode_topics_impl, anonymous field names) is *)
(* kept 0-based, as the source computes it.                                *)
(***************************************************************************)
EXTENDS Integers, Sequences, FiniteSets, TLC

\* Bounds of the model.
MaxParams == 2       \* parameters of an event with names and all types
MaxWideParams == 5   \* parameters of an event of unnamed uint256 parameters
MaxOutLen == 4       \* longest destination buffer handed to encode_topics_raw

\* event:  the declaration being expanded
\* pc:     "input" before expand, then "expanded" (Ok) or "error" (Err); the
\*         expanded code then compiles ("built") or does not ("rejected")
\* err:    the error expand returned, "none" otherwise
\* tokens: the generated code, NoTokens until it is generated
\* self:   the current value of the generated struct, a function of field names
\* last:   the last call on the generated code: its arguments and what it returned
VARIABLES event, pc, err, tokens, self, last

vars == <<event, pc, err, tokens, self, last>>

(***************************************************************************)
(* Input: the event declaration handed over by the parser.                 *)
(***************************************************************************)

\* "Unresolved" stands for a custom type name no item of the file defines.
SolTypes == {"uint256", "bytes32", "string", "Unresolved"}

\* p.name is <<>> for an unnamed parameter (None) and <<k>> for Some(ident k).
FullParams(n) ==
  { [i \in 1..n |-> [name |-> IF f[i].named THEN <<i>> ELSE <<>>,
                     ty |-> f[i].ty, indexed |-> f[i].indexed]] :
      f \in [1..n -> [named : BOOLEAN, ty : SolTypes, indexed : BOOLEAN]] }

WideParams(n) ==
  { [i \in 1..n |-> [name |-> <<>>, ty |-> f[i].ty, indexed |-> f[i].indexed]] :
      f \in [1..n -> [ty : {"uint256", "Unresolved"}, indexed : BOOLEAN]] }

Events ==
  { [parameters |-> ps, anonymous |-> a] :
      ps \in (UNION { FullParams(n) : n \in 0..MaxParams })
             \cup (UNION { WideParams(n) : n \in 0..MaxWideParams }),
      a \in BOOLEAN }

(***************************************************************************)
(* 32-byte words.  A word is a payload or a digest; digests are symbolic   *)
(* (the tag names the hashed domain), so a digest never equals a payload.  *)
(***************************************************************************)
Word(v) == [tag |-> "raw", n |-> v]

\* The payload words a field or a slot may hold.  The generated code only
\* copies payloads and never inspects them, so two distinguishable payloads
\* tell any two fields or slots apart.
Values == { Word(0), Word(1) }

keccak256(w) == [tag |-> "keccak256(abi_encode)", n |-> w.n]

TypeCode(ty) == CASE ty = "uint256" -> 1 [] ty = "bytes32" -> 2 [] ty = "string" -> 3 [] OTHER -> 0

RECURSIVE SigCode(_)
SigCode(types) == IF types = <<>> THEN 0 ELSE TypeCode(Head(types)) + 4 * SigCode(Tail(types))

\* cx.signature(name, params): the name and the canonical parameter types.
signature(ev) == [i \in 1..Len(ev.parameters) |-> ev.parameters[i].ty]

\* utils::event_selector: the full 32-byte digest of the signature.
event_selector(sig) == [tag |-> "keccak256(signature)", n |-> SigCode(sig)]

WordToken(w) == <<w>>

\* WordToken -> B256 (`t.into()`)
into_B256(t) == t[1]

(***************************************************************************)
(* Helpers of the AST and of the expansion context.                        *)
(***************************************************************************)
is_indexed(p) == p.indexed

is_non_indexed(p) == ~p.indexed

is_abi_dynamic(p) == p.ty = "string"

indexed_as_hash(p) == is_indexed(p) /\ is_abi_dynamic(p)

indexed_params(ev) == SelectSeq(ev.parameters, is_indexed)

non_indexed_params(ev) == SelectSeq(ev.parameters, is_non_indexed)

is_anonymous(ev) == ev.anonymous

\* TRUE stands for Ok(()), FALSE for Err.
assert_resolved(params) == \A i \in 1..Len(params) : params[i].ty # "Unresolved"

max_indexed(ev) == IF is_anonymous(ev) THEN 4 ELSE 3

assert_valid(ev) == Len(indexed_params(ev)) <= max_indexed(ev)

\* anon_name((i, name)): the given identifier, or `_i` for an unnamed parameter.
anon_name(i, name) ==
  IF name = <<>> THEN [anon |-> TRUE, id |-> i] ELSE [anon |-> FALSE, id |-> name[1]]

\* The sol_data type of a Solidity type.
expand_type(ty) ==
  CASE ty = "uint256" -> "sol_data::Uint<256>"
    [] ty = "bytes32" -> "sol_data::FixedBytes<32>"
    [] ty = "string" -> "sol_data::String"
    [] OTHER -> "unresolved"

\* The Rust type of a Solidity type.
expand_rust_type(ty) ==
  CASE ty = "uint256" -> "U256"
    [] ty = "bytes32" -> "B256"
    [] ty = "string" -> "String"
    [] OTHER -> "unresolved"

\* <T as SolType>::RustType
RustType(sol) ==
  CASE sol = "sol_data::Uint<256>" -> "U256"
    [] sol = "sol_data::FixedBytes<32>" -> "B256"
    [] sol = "sol_data::String" -> "String"
    [] OTHER -> "unresolved"

\* <T as EventTopic>::encode_topic: a static value is its own word, a dynamic
\* value is represented by the digest of its encoding.
encode_topic(sol, v) ==
  IF sol = "sol_data::String" THEN WordToken(keccak256(v)) ELSE WordToken(v)

(***************************************************************************)
(* expand(): the pieces of the generated code.                             *)
(***************************************************************************)
expand_event_topic_type(param) ==
  IF is_abi_dynamic(param) THEN "sol_data::FixedBytes<32>" ELSE expand_type(param.ty)

\* expand_event_topic_field without the indexed_as_hash branch: the field keeps
\* the parameter's own type.
expand_event_topic_field_own_type(i, param, name) ==
  [name |-> anon_name(i, name), ty |-> expand_rust_type(param.ty)]

expand_event_topic_field(i, param, name) ==
  [name |-> anon_name(i, name),
   ty |-> IF indexed_as_hash(param) THEN expand_rust_type("bytes32")
          ELSE expand_rust_type(param.ty)]

first_topic(ev) == IF ~is_anonymous(ev) THEN <<"sol_data::FixedBytes<32>">> ELSE <<>>

topic_list(ev) ==
  LET ip == indexed_params(ev)
  IN first_topic(ev) \o [k \in 1..Len(ip) |-> expand_event_topic_type(ip[k])]

\* data_tuple built over all the parameters instead of the non-indexed ones.
data_tuple_all_params(ev) ==
  [k \in 1..Len(ev.parameters) |-> expand_type(ev.parameters[k].ty)]

data_tuple(ev) ==
  LET np == non_indexed_params(ev)
  IN [k \in 1..Len(np) |-> expand_type(np[k].ty)]

\* The walk of new_impl from declaration position i with the two cursors.
RECURSIVE new_impl_walk(_, _, _, _)
new_impl_walk(parameters, i, topic_i, data_i) ==
  IF i >= Len(parameters)
  THEN [impl |-> <<>>, topic_i |-> topic_i, data_i |-> data_i]
  ELSE LET p == parameters[i + 1]
           name == anon_name(i, p.name)
       IN IF is_indexed(p)
          THEN LET rest == new_impl_walk(parameters, i + 1, topic_i + 1, data_i)
               IN [rest EXCEPT !.impl =
                     <<[name |-> name, from |-> "topics", index |-> topic_i]>> \o @]
          ELSE LET rest == new_impl_walk(parameters, i + 1, topic_i, data_i + 1)
               IN [rest EXCEPT !.impl =
                     <<[name |-> name, from |-> "data", index |-> data_i]>> \o @]

\* new_impl with the topic cursor starting at 0 whatever the anonymous flag.
new_impl_cursors_no_skip(ev) == new_impl_walk(ev.parameters, 0, 0, 0)

new_impl_cursors(ev) ==
  new_impl_walk(ev.parameters, 0, IF ~is_anonymous(ev) THEN 1 ELSE 0, 0)

new_impl(ev) == new_impl_cursors(ev).impl

topic_tuple_names(ev) ==
  LET ip == indexed_params(ev)
  IN [k \in 1..Len(ip) |-> anon_name(k - 1, ip[k].name)]

NoName == [anon |-> FALSE, id |-> 0]

topics_impl(ev) ==
  LET names == [k \in 1..Len(topic_tuple_names(ev)) |->
                  [kind |-> "field", name |-> topic_tuple_names(ev)[k]]]
  IN IF is_anonymous(ev) THEN names
     ELSE <<[kind |-> "SIGNATURE_HASH", name |-> NoName]>> \o names

encode_first_topic(ev) ==
  IF ~is_anonymous(ev)
  THEN <<[kind |-> "SIGNATURE_HASH", name |-> NoName, ty |-> "sol_data::FixedBytes<32>"]>>
  ELSE <<>>

\* encode_topics_impl numbering the assignments from 1.
encode_topics_impl_from_one(ev) ==
  LET ip == indexed_params(ev)
      enc == [k \in 1..Len(ip) |->
                [kind |-> "field",
                 name |-> anon_name(k - 1, ip[k].name),
                 ty |-> IF indexed_as_hash(ip[k]) THEN "sol_data::FixedBytes<32>"
                        ELSE expand_type(ip[k].ty)]]
      chained == encode_first_topic(ev) \o enc
  IN [j \in 1..Len(chained) |->
        [index |-> j, kind |-> chained[j].kind, name |-> chained[j].name,
         ty |-> chained[j].ty]]

\* One assignment `out[index] = ...;` per topic, the first topic chained in front.
encode_topics_impl(ev) ==
  LET ip == indexed_params(ev)
      enc == [k \in 1..Len(ip) |->
                [kind |-> "field",
                 name |-> anon_name(k - 1, ip[k].name),
                 ty |-> IF indexed_as_hash(ip[k]) THEN "sol_data::FixedBytes<32>"
                        ELSE expand_type(ip[k].ty)]]
      chained == encode_first_topic(ev) \o enc
  IN [j \in 1..Len(chained) |->
        [index |-> j - 1, kind |-> chained[j].kind, name |-> chained[j].name,
         ty |-> chained[j].ty]]

fields(ev) ==
  [j \in 1..Len(ev.parameters) |->
     expand_event_topic_field(j - 1, ev.parameters[j], ev.parameters[j].name)]

\* expand_event_tokenize: the non-indexed fields, in declaration order.
tokenize_body_impl(ev) ==
  LET fs == fields(ev)
      pos == SelectSeq([j \in 1..Len(ev.parameters) |-> j],
                       LAMBDA j : ~is_indexed(ev.parameters[j]))
  IN [k \in 1..Len(pos) |-> fs[pos[k]].name]

NoTokens == [generated |-> FALSE]

Tokens(ev) ==
  [generated |-> TRUE,
   fields |-> fields(ev),
   DataTuple |-> data_tuple(ev),
   TopicList |-> topic_list(ev),
   SIGNATURE |-> signature(ev),
   SIGNATURE_HASH |-> event_selector(signature(ev)),
   ANONYMOUS |-> is_anonymous(ev),
   new_impl |-> new_impl(ev),
   tokenize_body_impl |-> tokenize_body_impl(ev),
   topics_impl |-> topics_impl(ev),
   encode_topics_impl |-> encode_topics_impl(ev)]

\* expand without the call of assert_valid.
expand_no_assert_valid(ev) ==
  IF ~assert_resolved(ev.parameters)
  THEN [ok |-> FALSE, err |-> "unresolved", tokens |-> NoTokens]
  ELSE [ok |-> TRUE, err |-> "none", tokens |-> Tokens(ev)]

\* expand with assert_valid called before assert_resolved.
expand_valid_first(ev) ==
  IF ~assert_valid(ev)
  THEN [ok |-> FALSE, err |-> "invalid", tokens |-> NoTokens]
  ELSE IF ~assert_resolved(ev.parameters)
  THEN [ok |-> FALSE, err |-> "unresolved", tokens |-> NoTokens]
  ELSE [ok |-> TRUE, err |-> "none", tokens |-> Tokens(ev)]

\* expand(cx, event) -> Result<TokenStream>
expand(ev) ==
  IF ~assert_resolved(ev.parameters)
  THEN [ok |-> FALSE, err |-> "unresolved", tokens |-> NoTokens]
  ELSE IF ~assert_valid(ev)
  THEN [ok |-> FALSE, err |-> "invalid", tokens |-> NoTokens]
  ELSE [ok |-> TRUE, err |-> "none", tokens |-> Tokens(ev)]

(***************************************************************************)
(* The generated code: what the compiler accepts and what the methods do.  *)
(***************************************************************************)
\* <TopicList as TopicList>::COUNT: the arity of the tuple type.
COUNT(tk) == Len(tk.TopicList)

FieldNames(tk) == { tk.fields[j].name : j \in 1..Len(tk.fields) }

FieldType(tk, name) == (CHOOSE f \in { tk.fields[j] : j \in 1..Len(tk.fields) } : f.name = name).ty

\* The type check of the generated items: every field a method names exists,
\* the struct literal of new() sets every field once, and every expression has
\* the type its position declares.
rustc_accepts(tk) ==
  /\ Cardinality(FieldNames(tk)) = Len(tk.fields)
  /\ Len(tk.new_impl) = Len(tk.fields)
  /\ \A j \in 1..Len(tk.new_impl) :
       LET e == tk.new_impl[j]
           tuple == IF e.from = "topics" THEN tk.TopicList ELSE tk.DataTuple
       IN /\ e.name = tk.fields[j].name
          /\ e.index < Len(tuple)
          /\ RustType(tuple[e.index + 1]) = tk.fields[j].ty
  /\ Len(tk.tokenize_body_impl) = Len(tk.DataTuple)
  /\ \A k \in 1..Len(tk.tokenize_body_impl) :
       /\ tk.tokenize_body_impl[k] \in FieldNames(tk)
       /\ FieldType(tk, tk.tokenize_body_impl[k]) = RustType(tk.DataTuple[k])
  /\ Len(tk.topics_impl) = Len(tk.TopicList)
  /\ \A k \in 1..Len(tk.topics_impl) :
       LET e == tk.topics_impl[k]
       IN IF e.kind = "SIGNATURE_HASH"
          THEN RustType(tk.TopicList[k]) = "B256"
          ELSE /\ e.name \in FieldNames(tk)
               /\ FieldType(tk, e.name) = RustType(tk.TopicList[k])
  /\ \A k \in 1..Len(tk.encode_topics_impl) :
       LET a == tk.encode_topics_impl[k]
       IN a.kind = "field" =>
            /\ a.name \in FieldNames(tk)
            /\ FieldType(tk, a.name) = RustType(a.ty)

\* fn new(topics, data) -> Self
new(tk, topics, data) ==
  [nm \in FieldNames(tk) |->
     LET e == CHOOSE e \in { tk.new_impl[j] : j \in 1..Len(tk.new_impl) } : e.name = nm
     IN IF e.from = "topics" THEN topics[e.index + 1] ELSE data[e.index + 1]]

\* fn tokenize_body(&self) -> Self::DataToken
tokenize_body(tk, s) ==
  [k \in 1..Len(tk.tokenize_body_impl) |-> WordToken(s[tk.tokenize_body_impl[k]])]

\* fn topics(&self) -> <Self::TopicList as SolType>::RustType
topics(tk, s) ==
  [k \in 1..Len(tk.topics_impl) |->
     IF tk.topics_impl[k].kind = "SIGNATURE_HASH" THEN tk.SIGNATURE_HASH
     ELSE s[tk.topics_impl[k].name]]

\* The assignments `out[i] = ...;` from statement j on.  Indexing a slice at or
\* past its length panics.
RECURSIVE run_assignments(_, _, _, _)
run_assignments(tk, s, st, j) ==
  IF j > Len(tk.encode_topics_impl) THEN [st EXCEPT !.result = "Ok"]
  ELSE LET a == tk.encode_topics_impl[j]
           w == IF a.kind = "SIGNATURE_HASH" THEN WordToken(tk.SIGNATURE_HASH)
                ELSE encode_topic(a.ty, s[a.name])
       IN IF a.index >= Len(st.out) THEN [st EXCEPT !.result = "panic"]
          ELSE run_assignments(tk, s,
                 [st EXCEPT !.out[a.index + 1] = w, !.writes = Append(@, a.index)],
                 j + 1)

\* encode_topics_raw with a capacity check that lets a buffer one slot short
\* through.
encode_topics_raw_short_by_one(tk, s, buf) ==
  IF Len(buf) + 1 < COUNT(tk)
  THEN [out |-> buf, result |-> "Overrun", writes |-> <<>>]
  ELSE run_assignments(tk, s, [out |-> buf, result |-> "running", writes |-> <<>>], 1)

\* fn encode_topics_raw(&self, out: &mut [WordToken]) -> Result<()>
encode_topics_raw(tk, s, buf) ==
  IF Len(buf) < COUNT(tk)
  THEN [out |-> buf, result |-> "Overrun", writes |-> <<>>]
  ELSE run_assignments(tk, s, [out |-> buf, result |-> "running", writes |-> <<>>], 1)

\* SolEvent::encode_topics: a fresh buffer of COUNT zero words, filled by
\* encode_topics_raw.
encode_topics(tk, s) ==
  encode_topics_raw(tk, s, [k \in 1..COUNT(tk) |-> WordToken(Word(0))]).out

\* SolEvent::encode_data: the ABI encoding of the body tokens.
encode_data(tk, s) == [abi |-> tokenize_body(tk, s)]

\* impl From<&Event> for LogData
into_LogData(tk, s) ==
  LET enc == encode_topics(tk, s)
  IN [topics |-> [k \in 1..Len(enc) |-> into_B256(enc[k])], data |-> encode_data(tk, s)]

(***************************************************************************)
(* The state machine.                                                      *)
(***************************************************************************)
NoCall == [op |-> "none", topics |-> <<>>, data |-> <<>>, result |-> "none",
           out |-> <<>>, writes |-> <<>>]

\* What a destination buffer holds before the call: words nothing writes.
Stale == WordToken([tag |-> "stale", n |-> 0])

Init ==
  /\ event \in Events
  /\ pc = "input"
  /\ err = "none"
  /\ tokens = NoTokens
  /\ self = <<>>
  /\ last = NoCall

\* The macro runs on the declaration.
Expand ==
  /\ pc = "input"
  /\ LET r == expand(event)
     IN /\ pc' = IF r.ok THEN "expanded" ELSE "error"
        /\ err' = r.err
        /\ tokens' = r.tokens
  /\ UNCHANGED <<event, self, last>>

\* The compiler type-checks the generated items.
Compile ==
  /\ pc = "expanded"
  /\ pc' = IF rustc_accepts(tokens) THEN "built" ELSE "rejected"
  /\ UNCHANGED <<event, err, tokens, self, last>>

\* The generated code exists and compiles.
Built == pc = "built"

\* The topic tuples a caller may pass to new(): payload words, and in the
\* selector slot either the selector or some other word.
TopicInputs(tk) ==
  { t \in [1..COUNT(tk) -> Values \cup {tk.SIGNATURE_HASH}] :
      \A k \in 1..COUNT(tk) :
        t[k] = tk.SIGNATURE_HASH => (k = 1 /\ ~tk.ANONYMOUS) }

DataInputs(tk) == [1..Len(tk.DataTuple) -> Values]

\* One behaviour follows one value: it is built by new() and then read by one
\* method.  new() is an associated function and the methods take &self, so a
\* longer sequence of calls only revisits the states of these two-call
\* sequences.
Call_new ==
  /\ Built
  /\ last.op = "none"
  /\ \E t \in TopicInputs(tokens), d \in DataInputs(tokens) :
       /\ self' = new(tokens, t, d)
       /\ last' = [NoCall EXCEPT !.op = "new", !.topics = t, !.data = d,
                                 !.result = "Ok"]
  /\ UNCHANGED <<event, pc, err, tokens>>

Call_topics ==
  /\ Built
  /\ last.op = "new"
  /\ last' = [NoCall EXCEPT !.op = "topics", !.topics = topics(tokens, self),
                            !.result = "Ok"]
  /\ UNCHANGED <<event, pc, err, tokens, self>>

Call_encode_topics_raw(len) ==
  /\ Built
  /\ last.op = "new"
  /\ LET r == encode_topics_raw(tokens, self, [k \in 1..len |-> Stale])
     IN last' = [NoCall EXCEPT !.op = "encode_topics_raw", !.result = r.result,
                               !.out = r.out, !.writes = r.writes]
  /\ UNCHANGED <<event, pc, err, tokens, self>>

Call_into_LogData ==
  /\ Built
  /\ last.op = "new"
  /\ LET log == into_LogData(tokens, self)
     IN last' = [NoCall EXCEPT !.op = "LogData", !.topics = log.topics,
                               !.data = log.data, !.result = "Ok"]
  /\ UNCHANGED <<event, pc, err, tokens, self>>

Next ==
  \/ Expand
  \/ Compile
  \/ Call_new
  \/ Call_topics
  \/ \E len \in 0..MaxOutLen : Call_encode_topics_raw(len)
  \/ Call_into_LogData

Spec == Init /\ [][Next]_vars

(***************************************************************************)
(* Vocabulary of the properties, counted from the declaration itself.      *)
(***************************************************************************)
Params == event.parameters

IndexedPos == { p \in 1..Len(Params) : Params[p].indexed }

NonIndexedPos == { p \in 1..Len(Params) : ~Params[p].indexed }

DynIndexedPos == { p \in IndexedPos : Params[p].ty = "string" }

FirstSlot == IF event.anonymous THEN 0 ELSE 1

ExpectedCount == FirstSlot + Cardinality(IndexedPos)

\* The sequence element holding the topic, or the data member, of the
\* parameter declared at position p.
TopicSlot(p) == FirstSlot + Cardinality({ q \in IndexedPos : q < p }) + 1

DataSlot(p) == Cardinality({ q \in NonIndexedPos : q < p }) + 1

\* The struct field generated for the parameter declared at position p.
FieldAt(p) == tokens.fields[p].name

Generated == pc \in {"expanded", "built", "rejected"}

HasUnresolved == \E p \in 1..Len(Params) : Params[p].ty = "Unresolved"

TooManyIndexed == Cardinality(IndexedPos) > (IF event.anonymous THEN 4 ELSE 3)

(***************************************************************************)
(* C2.  encode_topics_raw on a buffer of fewer than COUNT slots returns    *)
(* Overrun and leaves every slot as it was: nothing is written.            *)
(***************************************************************************)
C2_OverrunWritesNothing ==
  (last.op = "encode_topics_raw" /\ Len(last.out) < ExpectedCount) =>
     /\ last.result = "Overrun"
     /\ last.writes = <<>>
     /\ \A k \in 1..Len(last.out) : last.out[k] = Stale

C2_Witness ==
  /\ last.op = "encode_topics_raw"
  /\ Len(last.out) >= 2
  /\ Len(last.out) < ExpectedCount
  /\ last.result = "Overrun"

C5_TopicCount ==
  /\ Generated =>
       /\ COUNT(tokens) = ExpectedCount
       /\ Len(tokens.TopicList) = ExpectedCount
       /\ Len(tokens.topics_impl) = ExpectedCount
       /\ Len(tokens.encode_topics_impl) = ExpectedCount
  /\ last.op = "topics" => Len(last.topics) = ExpectedCount
  /\ last.op = "encode_topics_raw" =>
       /\ last.result \in {"Ok", "Overrun"}
       /\ last.result = "Ok" <=> Len(last.out) >= ExpectedCount
       /\ last.result = "Ok" =>
            /\ last.writes = [k \in 1..ExpectedCount |-> k - 1]
            /\ \A k \in 1..Len(last.writes) : last.writes[k] < Len(last.out)
            /\ \A k \in 1..Len(last.out) : (last.out[k] = Stale) <=> (k > ExpectedCount)

C5_Witness ==
  /\ last.op = "encode_topics_raw"
  /\ last.result = "Ok"
  /\ ExpectedCount = 3
  /\ Len(last.out) = 3
  /\ last.writes = <<0, 1, 2>>

(***************************************************************************)
(* C7.  Every declared parameter is in exactly one channel: an indexed     *)
(* parameter has one slot of TopicList and no member of DataTuple, a       *)
(* non-indexed one has one member of DataTuple and no topic slot, and      *)
(* within each channel the parameters keep their declaration order.        *)
(***************************************************************************)
C7_TwoChannels ==
  Generated =>
    /\ Len(tokens.TopicList) = FirstSlot + Cardinality(IndexedPos)
    /\ Len(tokens.DataTuple) = Cardinality(NonIndexedPos)
    /\ ~event.anonymous => tokens.TopicList[1] = "sol_data::FixedBytes<32>"
    /\ \A p \in IndexedPos :
         tokens.TopicList[TopicSlot(p)] =
           (IF Params[p].ty = "string" THEN "sol_data::FixedBytes<32>"
            ELSE expand_type(Params[p].ty))
    /\ \A p \in NonIndexedPos :
         tokens.DataTuple[DataSlot(p)] = expand_type(Params[p].ty)

C7_Witness ==
  /\ Generated
  /\ Len(Params) = 2
  /\ ~event.anonymous
  /\ Params[1].ty = "uint256" /\ ~Params[1].indexed
  /\ Params[2].ty = "bytes32" /\ Params[2].indexed
  /\ tokens.TopicList = <<"sol_data::FixedBytes<32>", "sol_data::FixedBytes<32>">>
  /\ tokens.DataTuple = <<"sol_data::Uint<256>">>

(***************************************************************************)
(* C8.  When a parameter type is unresolved or the declaration is invalid, *)
(* expand returns the error and generates nothing; the resolution check    *)
(* comes before the validity check, and both before the signature and the  *)
(* selector.                                                               *)
(***************************************************************************)
C8_ErrorBuildsNothing ==
  /\ (HasUnresolved \/ TooManyIndexed) =>
       /\ pc \in {"input", "error"}
       /\ tokens = NoTokens
       /\ last.op = "none"
  /\ pc = "error" =>
       /\ HasUnresolved \/ TooManyIndexed
       /\ err = (IF HasUnresolved THEN "unresolved" ELSE "invalid")
       /\ tokens = NoTokens
  /\ Generated =>
       /\ err = "none"
       /\ tokens.generated
       /\ tokens.SIGNATURE_HASH = event_selector(tokens.SIGNATURE)

C8_Witness ==
  /\ pc = "error"
  /\ HasUnresolved
  /\ TooManyIndexed
  /\ err = "unresolved"
  /\ tokens = NoTokens

(***************************************************************************)
(* C9.  new(topics, data) walks the parameters in declaration order with   *)
(* two cursors that only increase: the parameter at position p receives    *)
(* topics[(anonymous ? 0 : 1) + indexed parameters before p] when indexed  *)
(* and data[non-indexed parameters before p] otherwise.  Every topic slot  *)
(* but the selector slot and every data member goes to exactly one field,  *)
(* the cursors end at COUNT and at the number of non-indexed parameters,   *)
(* and slot 0 of a non-anonymous event is never read: the value does not   *)
(* depend on the selector word received.                                   *)
(***************************************************************************)
C9_NewTwoCursors ==
  /\ Generated =>
       /\ new_impl_cursors(event).topic_i = COUNT(tokens)
       /\ new_impl_cursors(event).data_i = Cardinality(NonIndexedPos)
       /\ Len(tokens.new_impl) = Len(Params)
       /\ \A p \in 1..Len(Params) :
            /\ tokens.new_impl[p].name = FieldAt(p)
            /\ tokens.new_impl[p].from = (IF Params[p].indexed THEN "topics" ELSE "data")
            /\ tokens.new_impl[p].index + 1 =
                 (IF Params[p].indexed THEN TopicSlot(p) ELSE DataSlot(p))
       /\ \A p, q \in 1..Len(Params) :
            (p < q /\ tokens.new_impl[p].from = tokens.new_impl[q].from) =>
               tokens.new_impl[p].index < tokens.new_impl[q].index
       /\ { tokens.new_impl[p].index : p \in IndexedPos } =
            { i \in 0..(COUNT(tokens) - 1) : i >= FirstSlot }
       /\ { tokens.new_impl[p].index : p \in NonIndexedPos } =
            { i \in 0..(Len(tokens.DataTuple) - 1) : TRUE }
  /\ last.op = "new" =>
       /\ \A p \in IndexedPos : self[FieldAt(p)] = last.topics[TopicSlot(p)]
       /\ \A p \in NonIndexedPos : self[FieldAt(p)] = last.data[DataSlot(p)]
       /\ ~event.anonymous =>
            \A w \in Values \cup {tokens.SIGNATURE_HASH} :
              new(tokens, [last.topics EXCEPT ![1] = w], last.data) = self

C9_Witness ==
  /\ last.op = "new"
  /\ ~event.anonymous
  /\ last.topics[1] # tokens.SIGNATURE_HASH
  /\ Len(Params) = 3
  /\ Params[1].indexed /\ ~Params[2].indexed /\ Params[3].indexed
  /\ self[FieldAt(1)] = Word(1) /\ self[FieldAt(2)] = Word(0) /\ self[FieldAt(3)] = Word(1)
  /\ last.topics = <<Word(0), Word(1), Word(1)>>
  /\ last.data = <<Word(0)>>

(***************************************************************************)
(* C1.  Round trip: when no indexed parameter is dynamically typed,        *)
(* new(topics(r), data(r)) equals r in every field, for every declaration  *)
(* order and for named and unnamed parameters alike.                       *)
(***************************************************************************)
DataOf(tk, s) == [k \in 1..Len(tk.tokenize_body_impl) |-> into_B256(tokenize_body(tk, s)[k])]

C1_RoundTrip ==
  (last.op = "new" /\ DynIndexedPos = {}) =>
     new(tokens, topics(tokens, self), DataOf(tokens, self)) = self

(***************************************************************************)
(* C10.  topics() and encode_topics_raw take the value of every indexed    *)
(* parameter from the field generated for that parameter's declaration     *)
(* position, also when parameters are unnamed and a non-indexed parameter  *)
(* is declared before an indexed one.                                      *)
(***************************************************************************)
C10_TopicsReadOwnField ==
  /\ last.op = "topics" =>
       \A p \in IndexedPos : last.topics[TopicSlot(p)] = self[FieldAt(p)]
  /\ (last.op = "encode_topics_raw" /\ last.result = "Ok") =>
       \A p \in IndexedPos : last.out[TopicSlot(p)] = WordToken(self[FieldAt(p)])

(***************************************************************************)
(* C6.  Anonymous flag: for two declarations that differ in the anonymous  *)
(* flag only, and one value, the non-anonymous topic list is SIGNATURE_HASH*)
(* in slot 0 followed by the indexed parameters in slots 1.., and the      *)
(* anonymous one is that sequence without its first slot, one shorter; the *)
(* same holds of topics() and of encode_topics_raw.                        *)
(***************************************************************************)
NthIndexedPos(k) == CHOOSE p \in IndexedPos : Cardinality({ q \in IndexedPos : q < p }) = k - 1

IndexedValues == [k \in 1..Cardinality(IndexedPos) |-> self[FieldAt(NthIndexedPos(k))]]

WithAnonymous(a) == [event EXCEPT !.anonymous = a]

BothVariantsBuilt ==
  /\ expand(WithAnonymous(TRUE)).ok
  /\ expand(WithAnonymous(FALSE)).ok
  /\ rustc_accepts(Tokens(WithAnonymous(TRUE)))
  /\ rustc_accepts(Tokens(WithAnonymous(FALSE)))

C6_AnonymousDropsSelectorSlot ==
  (last.op = "new" /\ BothVariantsBuilt) =>
     LET ta == Tokens(WithAnonymous(TRUE))
         tn == Tokens(WithAnonymous(FALSE))
     IN /\ COUNT(ta) = COUNT(tn) - 1
        /\ topics(tn, self) = <<tn.SIGNATURE_HASH>> \o IndexedValues
        /\ topics(ta, self) = IndexedValues
        /\ encode_topics(tn, self) =
             <<WordToken(tn.SIGNATURE_HASH)>> \o
               [k \in 1..Len(IndexedValues) |-> WordToken(IndexedValues[k])]
        /\ encode_topics(ta, self) =
             [k \in 1..Len(IndexedValues) |-> WordToken(IndexedValues[k])]

(***************************************************************************)
(* C3, as stated.  For a dynamically typed indexed parameter holding v,    *)
(* the topic word written is hash(abi_encode(v)), not the value itself.    *)
(***************************************************************************)
C3_TopicIsHashOfValue ==
  /\ last.op = "topics" =>
       \A p \in DynIndexedPos : last.topics[TopicSlot(p)] = keccak256(self[FieldAt(p)])
  /\ (last.op = "encode_topics_raw" /\ last.result = "Ok") =>
       \A p \in DynIndexedPos :
         last.out[TopicSlot(p)] = WordToken(keccak256(self[FieldAt(p)]))

(***************************************************************************)
(* C3, amended.  For a dynamically typed indexed parameter the generated   *)
(* field is a bytes32 word, its TopicList slot is FixedBytes<32> and the   *)
(* encoder uses the topic encoding of FixedBytes<32>: topics() and         *)
(* encode_topics_raw copy into the slot the word of the record field they  *)
(* read, unchanged and unhashed, and new() stores the word of the slot     *)
(* unchanged in the parameter's field.                                     *)
(***************************************************************************)
C3_TopicIsFieldWordVerbatim ==
  /\ Generated =>
       \A p \in DynIndexedPos :
         /\ tokens.fields[p].ty = "B256"
         /\ tokens.TopicList[TopicSlot(p)] = "sol_data::FixedBytes<32>"
         /\ tokens.encode_topics_impl[TopicSlot(p)].ty = "sol_data::FixedBytes<32>"
  /\ last.op = "topics" =>
       \A p \in DynIndexedPos :
         last.topics[TopicSlot(p)] = self[tokens.topics_impl[TopicSlot(p)].name]
  /\ (last.op = "encode_topics_raw" /\ last.result = "Ok") =>
       \A p \in DynIndexedPos :
         last.out[TopicSlot(p)] =
           WordToken(self[tokens.encode_topics_impl[TopicSlot(p)].name])
  /\ last.op = "new" =>
       \A p \in DynIndexedPos : self[FieldAt(p)] = last.topics[TopicSlot(p)]

C3_Witness ==
  /\ last.op = "encode_topics_raw"
  /\ last.result = "Ok"
  /\ Len(Params) = 2
  /\ event.anonymous
  /\ Params[1].ty = "bytes32" /\ Params[1].indexed
  /\ Params[2].ty = "string" /\ Params[2].indexed
  /\ self[FieldAt(1)] = Word(0)
  /\ self[FieldAt(2)] = Word(1)
  /\ last.out[2] = WordToken(Word(1))

====
